---- MODULE Spec2Model ----
(***************************************************************************)
(* Model of the yoghurt production sequencer (Cadre10/prod_seq).           *)
(*                                                                         *)
(*   src/src/sequencer.py  transition_cost, build_sequence_for_machine,    *)
(*                         propose_sequence                                *)
(*   src/src/agent.py      assign_machine, ensure_machine, main            *)
(*   src/src/normalize.py  normalize_data, assign_machine, is_plain_yoghurt*)
(*                                                                         *)
(* Representation.  A Python str is a sequence of one-character strings,   *)
(* so that lower(), strip(), `in` (substring) and startswith() are         *)
(* computed and not assumed.  A DataFrame is a sequence of row records.    *)
(* An optional number (pack_size_g, NaN when absent) is a sequence of      *)
(* length 0 or 1.  A reason text built by "; ".join(parts) is the sequence *)
(* of its parts; the empty text "" is the empty sequence.                  *)
(***************************************************************************)
EXTENDS Integers, Sequences, FiniteSets, TLC

(***************************************************************************)
(* Bounds of the model.                                                    *)
(***************************************************************************)
MaxJobs == 3

(***************************************************************************)
(* str helpers                                                             *)
(***************************************************************************)
ToLower ==
  [A |-> "a", B |-> "b", C |-> "c", D |-> "d", E |-> "e", F |-> "f", G |-> "g",
   H |-> "h", I |-> "i", J |-> "j", K |-> "k", L |-> "l", M |-> "m", N |-> "n",
   O |-> "o", P |-> "p", Q |-> "q", R |-> "r", S |-> "s", T |-> "t", U |-> "u",
   V |-> "v", W |-> "w", X |-> "x", Y |-> "y", Z |-> "z"]

\* str.lower()
lower(s) ==
  [i \in 1..Len(s) |-> IF s[i] \in DOMAIN ToLower THEN ToLower[s[i]] ELSE s[i]]

\* `pat in s` for two str
contains(s, pat) ==
  \E i \in 0..(Len(s) - Len(pat)) : SubSeq(s, i + 1, i + Len(pat)) = pat

\* s.startswith(pat)
startswith(s, pat) ==
  /\ Len(pat) <= Len(s)
  /\ SubSeq(s, 1, Len(pat)) = pat

\* str.strip(): leading and trailing blanks removed
strip(s) ==
  LET nb == {i \in 1..Len(s) : s[i] # " "}
  IN  IF nb = {} THEN <<>>
      ELSE SubSeq(s, CHOOSE i \in nb : \A j \in nb : i <= j,
                     CHOOSE i \in nb : \A j \in nb : j <= i)

\* s.replace(old, new) for one-character old and new
replace(s, old, new) ==
  [i \in 1..Len(s) |-> IF s[i] = old THEN new ELSE s[i]]

\* a + " " + b
Joined(a, b) == a \o <<" ">> \o b

(***************************************************************************)
(* Literals of the source                                                  *)
(***************************************************************************)
kw_granola   == <<"g", "r", "a", "n", "o", "l", "a">>
kw_ss        == <<"s", "s", " ">>
kw_choc      == <<"c", "h", "o", "c">>
kw_chocolate == <<"c", "h", "o", "c", "o", "l", "a", "t", "e">>
kw_nut       == <<"n", "u", "t">>
kw_almond    == <<"a", "l", "m", "o", "n", "d">>
kw_hazelnut  == <<"h", "a", "z", "e", "l", "n", "u", "t">>

(***************************************************************************)
(* ChangeoverConfig (sequencer.py 14-30), minutes                          *)
(***************************************************************************)
BASE_PRODUCT_CHANGE_MIN      == 10
FLAVOUR_CHANGE_EXTRA_MIN     == 12
PLAIN_TO_FLAVOURED_EXTRA_MIN == 8
GRANOLA_CHANGE_EXTRA_MIN     == 15
WASHDOWN_MIN                 == 25
FULL_WASHDOWN_MIN            == 45
\* variant: the M3 rule switched off
M3_WASHDOWN_OFF == FALSE
M3_ALWAYS_WASHDOWN_ON_PRODUCT_CHANGE == TRUE

\* 1e9, the cost of a pair on different machines
DIFFERENT_MACHINE_COST == 1000000000
\* best_cost = 1e18 before the scan.  1e18 is outside TLC's integers; the
\* scan only tests c < best_cost with c <= 1e9, for which the largest
\* integer behaves as 1e18 does.
BEST_COST_INIT == 2147483647

(***************************************************************************)
(* Feature helpers (sequencer.py 39-68)                                    *)
(***************************************************************************)
is_granola(product_name) ==
  \/ contains(lower(product_name), kw_granola)
  \/ startswith(lower(product_name), kw_ss)

has_chocolate(product_name, flavour_label) ==
  LET t == lower(Joined(product_name, flavour_label))
  IN  contains(t, kw_choc) \/ contains(t, kw_chocolate)

has_nuts_granola_risk(product_name, flavour_label) ==
  LET t == lower(Joined(product_name, flavour_label))
  IN  \/ contains(t, kw_granola)
      \/ contains(t, kw_nut)
      \/ contains(t, kw_almond)
      \/ contains(t, kw_hazelnut)

flavour_bucket(flavour_label) == lower(strip(flavour_label))

make_features(row) ==
  [product_name |-> row.product_name,
   flavour      |-> flavour_bucket(row.flavour_label),
   is_plain     |-> row.is_plain_yoghurt,
   is_granola   |-> is_granola(row.product_name),
   has_choc     |-> has_chocolate(row.product_name, row.flavour_label),
   has_nut_risk |-> has_nuts_granola_risk(row.product_name, row.flavour_label),
   pack         |-> row.pack_size_g,
   machine      |-> row.machine]

(***************************************************************************)
(* Transition rules (sequencer.py 74-128)                                  *)
(***************************************************************************)
\* one entry of the `reasons` list; a flavour change carries both flavours.
\* The source's arrows are written <-> here.
Part(text) == <<text, <<>>, <<>>>>
FlavourPart(from, to) == <<"flavour change", from, to>>

\* "; ".join(reasons) if reasons else "no change"
JoinReasons(reasons) ==
  IF reasons # <<>> THEN reasons ELSE <<Part("no change")>>

\* variant: `cost = delta` for `cost += delta`
FireAssign(acc, cond, delta, wash, part) ==
  IF cond
  THEN [cost     |-> delta,
        washdown |-> acc.washdown \/ wash,
        reasons  |-> Append(acc.reasons, part)]
  ELSE acc

\* one `if` block of transition_cost: cost += delta, washdown = True where
\* the block sets it, reasons.append(part)
Fire(acc, cond, delta, wash, part) ==
  IF cond
  THEN [cost     |-> acc.cost + delta,
        washdown |-> acc.washdown \/ wash,
        reasons  |-> Append(acc.reasons, part)]
  ELSE acc

\* variant: the plain/flavoured rule fires from plain to flavoured only
transition_cost_from_plain(a, b) ==
  IF a.machine # b.machine
  THEN [cost |-> DIFFERENT_MACHINE_COST, washdown |-> TRUE,
        reason |-> <<Part("Different machine")>>]
  ELSE
    LET s0 == [cost |-> 0, washdown |-> FALSE, reasons |-> <<>>]
        s1 == Fire(s0, a.product_name # b.product_name,
                   BASE_PRODUCT_CHANGE_MIN, FALSE, Part("product change"))
        s2 == Fire(s1, /\ a.machine = "M3"
                       /\ M3_ALWAYS_WASHDOWN_ON_PRODUCT_CHANGE
                       /\ a.product_name # b.product_name,
                   WASHDOWN_MIN, TRUE, Part("M3 granola washdown"))
        s3 == Fire(s2, /\ a.flavour # <<>>
                       /\ b.flavour # <<>>
                       /\ a.flavour # b.flavour,
                   FLAVOUR_CHANGE_EXTRA_MIN, TRUE,
                   FlavourPart(a.flavour, b.flavour))
        s4 == Fire(s3, a.is_plain /\ ~b.is_plain,
                   PLAIN_TO_FLAVOURED_EXTRA_MIN, TRUE,
                   Part("plain<->flavoured switch"))
        s5 == Fire(s4, a.is_granola # b.is_granola,
                   GRANOLA_CHANGE_EXTRA_MIN, TRUE,
                   Part("granola<->non-granola"))
        s6 == Fire(s5, a.has_nut_risk # b.has_nut_risk,
                   FULL_WASHDOWN_MIN - WASHDOWN_MIN, TRUE,
                   Part("allergen risk shift (full washdown)"))
        s7 == Fire(s6, a.has_choc # b.has_choc,
                   FULL_WASHDOWN_MIN - WASHDOWN_MIN, TRUE,
                   Part("choc/non-choc shift (full washdown)"))
    IN  [cost |-> s7.cost, washdown |-> s7.washdown,
         reason |-> JoinReasons(s7.reasons)]

transition_cost(a, b) ==
  IF a.machine # b.machine
  THEN [cost |-> DIFFERENT_MACHINE_COST, washdown |-> TRUE,
        reason |-> <<Part("Different machine")>>]
  ELSE
    LET s0 == [cost |-> 0, washdown |-> FALSE, reasons |-> <<>>]
        s1 == Fire(s0, a.product_name # b.product_name,
                   BASE_PRODUCT_CHANGE_MIN, FALSE, Part("product change"))
        s2 == Fire(s1, /\ a.machine = "M3"
                       /\ M3_ALWAYS_WASHDOWN_ON_PRODUCT_CHANGE
                       /\ a.product_name # b.product_name,
                   WASHDOWN_MIN, TRUE, Part("M3 granola washdown"))
        s3 == Fire(s2, /\ a.flavour # <<>>
                       /\ b.flavour # <<>>
                       /\ a.flavour # b.flavour,
                   FLAVOUR_CHANGE_EXTRA_MIN, TRUE,
                   FlavourPart(a.flavour, b.flavour))
        s4 == Fire(s3, a.is_plain # b.is_plain,
                   PLAIN_TO_FLAVOURED_EXTRA_MIN, TRUE,
                   Part("plain<->flavoured switch"))
        s5 == Fire(s4, a.is_granola # b.is_granola,
                   GRANOLA_CHANGE_EXTRA_MIN, TRUE,
                   Part("granola<->non-granola"))
        s6 == Fire(s5, a.has_nut_risk # b.has_nut_risk,
                   FULL_WASHDOWN_MIN - WASHDOWN_MIN, TRUE,
                   Part("allergen risk shift (full washdown)"))
        s7 == Fire(s6, a.has_choc # b.has_choc,
                   FULL_WASHDOWN_MIN - WASHDOWN_MIN, TRUE,
                   Part("choc/non-choc shift (full washdown)"))
    IN  [cost |-> s7.cost, washdown |-> s7.washdown,
         reason |-> JoinReasons(s7.reasons)]

(***************************************************************************)
(* Job rows                                                                *)
(***************************************************************************)
Row(pn, fl, pack, plain, m) ==
  [product_name |-> pn, flavour_label |-> fl, pack_size_g |-> pack,
   is_plain_yoghurt |-> plain, machine |-> m]

NoPack == <<>>

pn_plain_150   == <<"P", "l", "a", "i", "n", " ", "1", "5", "0", "g">>
pn_vanilla_150 == <<"V", "a", "n", "i", "l", "l", "a", " ", "1", "5", "0", "g">>
pn_vanilla_450 == <<"V", "a", "n", "i", "l", "l", "a", " ", "4", "5", "0", "g">>
pn_choc_nut    == <<"C", "h", "o", "c", " ", "N", "u", "t">>
pn_ss_mango    == <<"S", "S", " ", "M", "a", "n", "g", "o">>
pn_granola_450 == <<"G", "r", "a", "n", "o", "l", "a", " ", "4", "5", "0", "g">>
pn_granola_150 == <<"G", "r", "a", "n", "o", "l", "a", " ", "1", "5", "0", "g">>
pn_override   == <<"C", ".", "S", "o", "m", "e", "P", "r", "o", "d", "u", "c", "t", " ", "1", "5", "0", "g">>
pn_granola_5kg == <<"G", "r", "a", "n", "o", "l", "a", " ", "5", "k", "g">>
pn_plain_5KG  == <<"P", "l", "a", "i", "n", " ", "5", "K", "G">>
pn_plain      == <<"P", "l", "a", "i", "n">>

fl_none      == <<>>
fl_plain     == <<"p", "l", "a", "i", "n">>
fl_vanilla   == <<"v", "a", "n", "i", "l", "l", "a">>
fl_Vanilla_  == <<" ", "V", "a", "n", "i", "l", "l", "a">>
fl_mango     == <<"m", "a", "n", "g", "o">>

\* The rows the sequencer's inputs are drawn from.
Catalogue ==
  { Row(pn_plain_150,   fl_plain,    <<150>>, TRUE,  "M1"),
    Row(pn_vanilla_150, fl_vanilla,  <<150>>, FALSE, "M1"),
    Row(pn_vanilla_150, fl_Vanilla_, NoPack,  FALSE, "M1"),
    Row(pn_vanilla_450, fl_vanilla,  <<450>>, FALSE, "M1"),
    Row(pn_choc_nut,    fl_none,     <<150>>, FALSE, "M1"),
    Row(pn_ss_mango,    fl_mango,    <<150>>, FALSE, "M1"),
    Row(pn_granola_450, fl_mango,    <<450>>, FALSE, "M3"),
    Row(pn_granola_150, fl_mango,    <<150>>, FALSE, "M3"),
    Row(pn_vanilla_150, fl_vanilla,  <<150>>, FALSE, "UNKNOWN"),
    Row(pn_plain_150,   fl_plain,    <<150>>, TRUE,  "UNKNOWN") }

Inputs == UNION {[1..n -> Catalogue] : n \in 0..MaxJobs}

(***************************************************************************)
(* State                                                                   *)
(***************************************************************************)
VARIABLES
  pc,         \* position in the program
  run,        \* 1: first call of propose_sequence, 2: the second call
  df,         \* the input DataFrame of the call
  groups,     \* machine keys of df.groupby("machine") still to be built
  df_jobs,    \* build_sequence_for_machine: the de-duplicated jobs
  feats,      \* build_sequence_for_machine: feats[i] of df_jobs[i]
  order,      \* build_sequence_for_machine: indices placed so far
  remaining,  \* build_sequence_for_machine: indices not placed yet
  seq_rows,   \* build_sequence_for_machine: df_jobs.loc[order] with ranks
  cols,       \* wash_flags, wash_reasons, chg_flags, chg_reasons
  ai,         \* the loop index i of the annotation loop
  out_parts,  \* propose_sequence: the per-machine results so far
  out,        \* the DataFrame propose_sequence returned
  calls,      \* the transition_cost calls the last step made
  first_df,   \* input of the first call
  first_out,  \* output of the first call
  M2_150_OVERRIDES,  \* agent.py: the table of product names that run on M2
  classified, \* the assign_machine calls ensure_machine made
  loaded,     \* agent.py main: the plan as load_input_csv returned it
  df_out      \* agent.py main: the table that is printed and saved

locals == <<df_jobs, feats, order, remaining, seq_rows, cols, ai>>
classify == <<M2_150_OVERRIDES, classified, loaded, df_out>>
sequencer == <<run, groups, df_jobs, feats, order, remaining, seq_rows,
               cols, ai, out_parts, out, calls, first_df, first_out>>
vars == <<pc, run, df, groups, df_jobs, feats, order, remaining, seq_rows,
          cols, ai, out_parts, out, calls, first_df, first_out,
          M2_150_OVERRIDES, classified, loaded, df_out>>

NoCols ==
  [wash_flags |-> <<>>, wash_reasons |-> <<>>,
   chg_flags |-> <<>>, chg_reasons |-> <<>>]

NoLocals ==
  /\ df_jobs' = <<>>
  /\ feats' = <<>>
  /\ order' = <<>>
  /\ remaining' = {}
  /\ seq_rows' = <<>>
  /\ cols' = NoCols
  /\ ai' = 0

(***************************************************************************)
(* propose_sequence: groupby (sequencer.py 235-238)                        *)
(***************************************************************************)
\* The machine labels in Python's string order, which is the order
\* groupby(sort=True) yields its keys in.
MachineSortOrder ==
  <<"", "BUCKET", "BUCKET_LINE", "M1", "M2", "M3", "UNKNOWN", "UNKNOWN_LINE">>

\* variant: groupby(sort=False), the keys in the order of first appearance
GroupKeysFirstSeen(d) ==
  LET firsts == {i \in 1..Len(d) :
                   \A j \in 1..(i - 1) : d[j].machine # d[i].machine}
      nth(k) == CHOOSE i \in firsts : Cardinality({j \in firsts : j < i}) = k - 1
  IN  [k \in 1..Cardinality(firsts) |-> d[nth(k)].machine]

GroupKeys(d) ==
  SelectSeq(MachineSortOrder, LAMBDA m : \E i \in 1..Len(d) : d[i].machine = m)

\* variant: no partition, each group is the whole of df with the machine
\* labels its rows came with
GroupRowsUncut(d, m) == d

\* variant: the group is not cut out of df, every row is taken
GroupRowsWhole(d, m) ==
  [i \in 1..Len(d) |-> [d[i] EXCEPT !.machine = m]]

\* df_m of one group, with df_m["machine"] = str(m)
GroupRows(d, m) ==
  LET sel == SelectSeq(d, LAMBDA r : r.machine = m)
  IN  [i \in 1..Len(sel) |-> [sel[i] EXCEPT !.machine = m]]

(***************************************************************************)
(* build_sequence_for_machine (sequencer.py 134-221)                       *)
(***************************************************************************)
\* the rows of d at the indices S, in index order
RowsAt(d, S) ==
  LET nth(k) == CHOOSE i \in S : Cardinality({j \in S : j < i}) = k - 1
  IN  [k \in 1..Cardinality(S) |-> d[nth(k)]]

DedupKey(r) == <<r.product_name, r.flavour_label, r.pack_size_g, r.machine>>

\* variant: keep="last", the last row of each key is kept
drop_duplicates_keep_last(d) ==
  RowsAt(d, {i \in 1..Len(d) :
               \A j \in (i + 1)..Len(d) : DedupKey(d[j]) # DedupKey(d[i])})

\* DataFrame.drop_duplicates(subset=keys): the first row of each key is kept
drop_duplicates(d) ==
  RowsAt(d, {i \in 1..Len(d) :
               \A j \in 1..(i - 1) : DedupKey(d[j]) # DedupKey(d[i])})

\* variant: a plain job is penalised instead of favoured
start_score_plain_last(f) ==
  (IF f.is_plain THEN 5 ELSE 0)
  + (IF ~f.is_granola THEN -2 ELSE 0)
  + (IF ~f.has_nut_risk THEN -2 ELSE 0)
  + (IF ~f.has_choc THEN -1 ELSE 0)

start_score(f) ==
  (IF f.is_plain THEN -5 ELSE 0)
  + (IF ~f.is_granola THEN -2 ELSE 0)
  + (IF ~f.has_nut_risk THEN -2 ELSE 0)
  + (IF ~f.has_choc THEN -1 ELSE 0)

\* variant: the last index of the least key
start_idx_last(fs) ==
  CHOOSE i \in 1..Len(fs) :
    /\ \A j \in 1..Len(fs) : start_score(fs[i]) <= start_score(fs[j])
    /\ \A j \in (i + 1)..Len(fs) : start_score(fs[j]) # start_score(fs[i])

\* min(range(len(feats)), key=...): the first index of the least key
start_idx(fs) ==
  CHOOSE i \in 1..Len(fs) :
    /\ \A j \in 1..Len(fs) : start_score(fs[i]) <= start_score(fs[j])
    /\ \A j \in 1..(i - 1) : start_score(fs[j]) # start_score(fs[i])

\* variant: the iteration order of the set differs from call to call
SetIterOrderUnstable(S) ==
  LET up(k)   == CHOOSE i \in S : Cardinality({j \in S : j < i}) = k - 1
      down(k) == CHOOSE i \in S : Cardinality({j \in S : j > i}) = k - 1
  IN  [k \in 1..Cardinality(S) |-> IF run = 1 THEN up(k) ELSE down(k)]

\* `for j in remaining`.  remaining is a set of the ints 0..n-1, which hash
\* to themselves: CPython iterates it in increasing order, also after
\* removals.
SetIterOrder(S) ==
  LET nth(k) == CHOOSE i \in S : Cardinality({j \in S : j < i}) = k - 1
  IN  [k \in 1..Cardinality(S) |-> nth(k)]

\* variant: best_cost starts at 0
NoBestZero ==
  [best_i |-> 0, best_cost |-> 0, best_wash |-> FALSE, best_reason |-> <<>>]

\* best_i = None (no index: 0), best_cost = 1e18, best_wash, best_reason
NoBest ==
  [best_i |-> 0, best_cost |-> BEST_COST_INIT, best_wash |-> FALSE,
   best_reason |-> <<>>]

\* variant: `c <= best_cost`, the last candidate of least cost wins
RECURSIVE ScanLastLeast(_, _, _, _)
ScanLastLeast(fs, last, js, best) ==
  IF js = <<>> THEN best
  ELSE LET j == Head(js)
           t == transition_cost(fs[last], fs[j])
       IN  ScanLastLeast(fs, last, Tail(js),
                IF t.cost <= best.best_cost
                THEN [best_i |-> j, best_cost |-> t.cost,
                      best_wash |-> t.washdown, best_reason |-> t.reason]
                ELSE best)

\* the body of `for j in remaining`, over the candidates js in turn
RECURSIVE Scan(_, _, _, _)
Scan(fs, last, js, best) ==
  IF js = <<>> THEN best
  ELSE LET j == Head(js)
           t == transition_cost(fs[last], fs[j])
       IN  Scan(fs, last, Tail(js),
                IF t.cost < best.best_cost
                THEN [best_i |-> j, best_cost |-> t.cost,
                      best_wash |-> t.washdown, best_reason |-> t.reason]
                ELSE best)

CallRec(a, b) == [a |-> a, b |-> b, res |-> transition_cost(a, b)]

CurrentJobs == drop_duplicates(GroupRows(df, Head(groups)))

NextGroup ==
  /\ groups' = Tail(groups)
  /\ pc' = IF Tail(groups) = <<>> THEN "concat" ELSE "machine"

\* df[name] = v on one row: the column is added, or overwritten
SetCol(r, name, v) == (name :> v) @@ r

\* row.get(name, default)
Get(row, name, default) == IF name \in DOMAIN row THEN row[name] ELSE default

Init ==
  /\ pc = "call"
  /\ run = 1
  /\ df \in Inputs
  /\ groups = <<>>
  /\ df_jobs = <<>>
  /\ feats = <<>>
  /\ order = <<>>
  /\ remaining = {}
  /\ seq_rows = <<>>
  /\ cols = NoCols
  /\ ai = 0
  /\ out_parts = <<>>
  /\ out = <<>>
  /\ calls = <<>>
  /\ first_df = <<>>
  /\ first_out = <<>>
  /\ M2_150_OVERRIDES = {}
  /\ classified = <<>>
  /\ loaded = <<>>
  /\ df_out = <<>>

\* propose_sequence, entry: the groups of df.groupby("machine")
ProposeSequence ==
  /\ pc = "call"
  /\ groups' = GroupKeys(df)
  /\ out_parts' = <<>>
  /\ calls' = <<>>
  /\ pc' = IF GroupKeys(df) = <<>> THEN "concat" ELSE "machine"
  /\ UNCHANGED <<classify,run, df, locals, out, first_df, first_out>>

\* build_sequence_for_machine, len(df_jobs) <= 1 (lines 148-154)
SingleJobPartition ==
  /\ pc = "machine"
  /\ Len(CurrentJobs) <= 1
  /\ LET jobs == CurrentJobs
         res  == [k \in 1..Len(jobs) |->
                    SetCol(SetCol(SetCol(SetCol(SetCol(jobs[k],
                      "sequence_rank", k),
                      "washdown_required", FALSE),
                      "washdown_reason", <<>>),
                      "changeover_required", FALSE),
                      "changeover_reason", <<>>)]
     IN  out_parts' = Append(out_parts, res)
  /\ NextGroup
  /\ calls' = <<>>
  /\ UNCHANGED <<classify,run, df, locals, out, first_df, first_out>>

\* build_sequence_for_machine, lines 156-174: features and the start job
ChooseStart ==
  /\ pc = "machine"
  /\ Len(CurrentJobs) > 1
  /\ LET jobs == CurrentJobs
         fs   == [k \in 1..Len(jobs) |-> make_features(jobs[k])]
     IN  /\ df_jobs' = jobs
         /\ feats' = fs
         /\ order' = <<start_idx(fs)>>
         /\ remaining' = (1..Len(fs)) \ {start_idx(fs)}
  /\ pc' = "greedy"
  /\ calls' = <<>>
  /\ UNCHANGED <<classify,run, df, groups, seq_rows, cols, ai, out_parts, out,
                 first_df, first_out>>

\* one iteration of `while remaining` (lines 177-193)
GreedyStep ==
  /\ pc = "greedy"
  /\ remaining # {}
  /\ LET last == order[Len(order)]
         js   == SetIterOrder(remaining)
         best == Scan(feats, last, js, NoBest)
     IN  /\ calls' = [k \in 1..Len(js) |-> CallRec(feats[last], feats[js[k]])]
         /\ order' = Append(order, best.best_i)
         /\ IF best.best_i \in remaining
            THEN /\ remaining' = remaining \ {best.best_i}
                 /\ pc' = "greedy"
            ELSE \* remaining.remove(None) raises KeyError
                 /\ remaining' = remaining
                 /\ pc' = "raised"
  /\ UNCHANGED <<classify,run, df, groups, df_jobs, feats, seq_rows, cols, ai,
                 out_parts, out, first_df, first_out>>

\* variant: the first row is flagged as a changeover
FirstRowColsFlagged ==
  [wash_flags |-> <<FALSE>>, wash_reasons |-> << <<>> >>,
   chg_flags |-> <<TRUE>>, chg_reasons |-> <<(<<Part("START")>>)>>]

\* wash_flags = [False], wash_reasons = [""], chg_flags = [False],
\* chg_reasons = ["START"] (lines 199-202)
FirstRowCols ==
  [wash_flags |-> <<FALSE>>, wash_reasons |-> << <<>> >>,
   chg_flags |-> <<FALSE>>, chg_reasons |-> <<(<<Part("START")>>)>>]

\* lines 196-202: the ordered rows, their ranks, the first row's columns
BuildTransitionColumns ==
  /\ pc = "greedy"
  /\ remaining = {}
  /\ seq_rows' = [k \in 1..Len(order) |->
                    SetCol(df_jobs[order[k]], "sequence_rank", k)]
  /\ cols' = FirstRowCols
  /\ ai' = 1
  /\ pc' = "annotate"
  /\ calls' = <<>>
  /\ UNCHANGED <<classify,run, df, groups, df_jobs, feats, order, remaining,
                 out_parts, out, first_df, first_out>>

\* variant: the changeover flag is taken from the washdown flag
AnnotateRowFromWash(prev, cur) ==
  LET a == make_features(prev)
      b == make_features(cur)
      t == transition_cost(a, b)
      prod_change == a.product_name # b.product_name
  IN  [chg_flag    |-> t.washdown,
       chg_reason  |-> IF prod_change THEN t.reason
                       ELSE <<Part("no product change")>>,
       wash_flag   |-> t.washdown,
       wash_reason |-> IF t.washdown THEN t.reason ELSE <<>>]

\* the body of the annotation loop for one adjacent pair (lines 205-214):
\* the four values it appends
AnnotateRow(prev, cur) ==
  LET a == make_features(prev)
      b == make_features(cur)
      t == transition_cost(a, b)
      prod_change == a.product_name # b.product_name
  IN  [chg_flag    |-> prod_change,
       chg_reason  |-> IF prod_change THEN t.reason
                       ELSE <<Part("no product change")>>,
       wash_flag   |-> t.washdown,
       wash_reason |-> IF t.washdown THEN t.reason ELSE <<>>]

\* one iteration of `for i in range(1, len(seq_rows))` (lines 204-214);
\* ai is Python's i, so seq_rows.loc[i - 1] is seq_rows[ai] here
AnnotateStep ==
  /\ pc = "annotate"
  /\ ai < Len(seq_rows)
  /\ LET e == AnnotateRow(seq_rows[ai], seq_rows[ai + 1])
     IN  cols' = [wash_flags   |-> Append(cols.wash_flags, e.wash_flag),
                  wash_reasons |-> Append(cols.wash_reasons, e.wash_reason),
                  chg_flags    |-> Append(cols.chg_flags, e.chg_flag),
                  chg_reasons  |-> Append(cols.chg_reasons, e.chg_reason)]
  /\ calls' = <<CallRec(make_features(seq_rows[ai]),
                        make_features(seq_rows[ai + 1]))>>
  /\ ai' = ai + 1
  /\ UNCHANGED <<classify,pc, run, df, groups, df_jobs, feats, order, remaining,
                 seq_rows, out_parts, out, first_df, first_out>>

\* lines 216-221 and propose_sequence line 239
FinishMachine ==
  /\ pc = "annotate"
  /\ ai = Len(seq_rows)
  /\ LET res == [k \in 1..Len(seq_rows) |->
                   SetCol(SetCol(SetCol(SetCol(seq_rows[k],
                     "changeover_required", cols.chg_flags[k]),
                     "changeover_reason", cols.chg_reasons[k]),
                     "washdown_required", cols.wash_flags[k]),
                     "washdown_reason", cols.wash_reasons[k])]
     IN  out_parts' = Append(out_parts, res)
  /\ NextGroup
  /\ NoLocals
  /\ calls' = <<>>
  /\ UNCHANGED <<classify,run, df, out, first_df, first_out>>

RECURSIVE Flatten(_)
Flatten(parts) ==
  IF parts = <<>> THEN <<>> ELSE Head(parts) \o Flatten(Tail(parts))

\* pd.concat(out_parts, ignore_index=True) (line 241); an empty list raises
Concat ==
  /\ pc = "concat"
  /\ IF out_parts = <<>>
     THEN /\ pc' = "raised"
          /\ out' = out
     ELSE /\ pc' = "done"
          /\ out' = Flatten(out_parts)
  /\ calls' = <<>>
  /\ UNCHANGED <<classify,run, df, groups, locals, out_parts, first_df, first_out>>

\* d without its row at index i
RemoveAt(d, i) == SubSeq(d, 1, i - 1) \o SubSeq(d, i + 1, Len(d))

\* The caller calls propose_sequence a second time: on the same input, or
\* on the input with one job removed.
CallAgain ==
  /\ pc = "done"
  /\ run = 1
  /\ first_df' = df
  /\ first_out' = out
  /\ df' \in {df} \cup {RemoveAt(df, i) : i \in 1..Len(df)}
  /\ run' = 2
  /\ pc' = "call"
  /\ out' = <<>>
  /\ out_parts' = <<>>
  /\ calls' = <<>>
  /\ UNCHANGED <<classify,groups, locals>>

(***************************************************************************)
(* sequence_actions (sequencer.py 247-259)                                 *)
(***************************************************************************)
\* variant: the changeover flag is tested before the washdown flag
sequence_actions_changeover_first(d) ==
  [i \in 1..Len(d) |->
     IF Get(d[i], "changeover_required", FALSE) THEN "CHANGEOVER + RUN"
     ELSE IF Get(d[i], "washdown_required", FALSE) THEN "WASHDOWN + RUN"
     ELSE "RUN"]

\* sequence_actions(df): the list of action labels, one for each row
sequence_actions(d) ==
  [i \in 1..Len(d) |->
     IF Get(d[i], "washdown_required", FALSE) THEN "WASHDOWN + RUN"
     ELSE IF Get(d[i], "changeover_required", FALSE) THEN "CHANGEOVER + RUN"
     ELSE "RUN"]

\* seq["action"] = sequence_actions(seq) (agent.py 218)
SequenceActions ==
  /\ pc = "done"
  /\ out' = [i \in 1..Len(out) |->
               SetCol(out[i], "action", sequence_actions(out)[i])]
  /\ pc' = "actions"
  /\ UNCHANGED <<classify, run, df, groups, locals, out_parts, calls,
                 first_df, first_out>>

Next ==
  \/ ProposeSequence
  \/ SingleJobPartition
  \/ ChooseStart
  \/ GreedyStep
  \/ BuildTransitionColumns
  \/ AnnotateStep
  \/ FinishMachine
  \/ Concat
  \/ CallAgain
  \/ SequenceActions

Spec == Init /\ [][Next]_vars

(***************************************************************************)
(* Plans over every line: propose_sequence on rows of all machine labels,  *)
(* with a quantity column and with rows that repeat a job.                 *)
(***************************************************************************)
LineRow(pn, fl, pack, plain, m, vol) ==
  SetCol(Row(pn, fl, pack, plain, m), "batch_volume_l", vol)

LineCatalogue ==
  { LineRow(pn_plain_150,   fl_plain,   <<150>>, TRUE,  "M1",           10),
    LineRow(pn_plain_150,   fl_plain,   <<150>>, TRUE,  "M1",           20),
    LineRow(pn_vanilla_150, fl_vanilla, <<150>>, FALSE, "M1",           10),
    LineRow(pn_vanilla_450, fl_vanilla, <<450>>, FALSE, "M2",           10),
    LineRow(pn_granola_450, fl_mango,   <<450>>, FALSE, "M3",           10),
    LineRow(pn_plain_5KG,   fl_plain,   NoPack,  TRUE,  "BUCKET_LINE",  10),
    LineRow(pn_plain,       fl_none,    NoPack,  TRUE,  "UNKNOWN",      10),
    LineRow(pn_ss_mango,    fl_mango,   NoPack,  FALSE, "UNKNOWN_LINE", 10) }

LineInputs == UNION {[1..n -> LineCatalogue] : n \in 0..MaxJobs}

InitLines ==
  /\ pc = "call"
  /\ run = 1
  /\ df \in LineInputs
  /\ groups = <<>>
  /\ df_jobs = <<>>
  /\ feats = <<>>
  /\ order = <<>>
  /\ remaining = {}
  /\ seq_rows = <<>>
  /\ cols = NoCols
  /\ ai = 0
  /\ out_parts = <<>>
  /\ out = <<>>
  /\ calls = <<>>
  /\ first_df = <<>>
  /\ first_out = <<>>
  /\ M2_150_OVERRIDES = {}
  /\ classified = <<>>
  /\ loaded = <<>>
  /\ df_out = <<>>

SpecLines == InitLines /\ [][Next]_vars

(***************************************************************************)
(* transition_cost on a pair of jobs, asked in both directions             *)
(***************************************************************************)
InitPair ==
  /\ pc = "pair"
  /\ run = 1
  /\ df \in [1..2 -> Catalogue]
  /\ groups = <<>>
  /\ df_jobs = <<>>
  /\ feats = <<>>
  /\ order = <<>>
  /\ remaining = {}
  /\ seq_rows = <<>>
  /\ cols = NoCols
  /\ ai = 0
  /\ out_parts = <<>>
  /\ out = <<>>
  /\ calls = <<>>
  /\ first_df = <<>>
  /\ first_out = <<>>
  /\ M2_150_OVERRIDES = {}
  /\ classified = <<>>
  /\ loaded = <<>>
  /\ df_out = <<>>

\* transition_cost(A, B) and transition_cost(B, A) for the features of the
\* two rows of df
TransitionCostBothWays ==
  /\ pc = "pair"
  /\ feats' = [i \in 1..2 |-> make_features(df[i])]
  /\ calls' = <<CallRec(make_features(df[1]), make_features(df[2])),
                CallRec(make_features(df[2]), make_features(df[1]))>>
  /\ pc' = "paired"
  /\ UNCHANGED <<classify, run, df, groups, df_jobs, order, remaining,
                 seq_rows, cols, ai, out_parts, out, first_df, first_out>>

NextPair == TransitionCostBothWays

SpecPair == InitPair /\ [][NextPair]_vars

(***************************************************************************)
(* Machine classification (agent.py 34-64, dashboard.py 34-67) and         *)
(* ensure_machine (agent.py 163-172)                                       *)
(***************************************************************************)
kw_2kg  == <<"2", "k", "g">>
kw_5kg  == <<"5", "k", "g">>
kw_10kg == <<"1", "0", "k", "g">>
kw_450g == <<"4", "5", "0", "g">>
kw_150g == <<"1", "5", "0", "g">>
kw_170g == <<"1", "7", "0", "g">>
kw_175g == <<"1", "7", "5", "g">>

\* `pack in [..]` / `pack == n` for a pack size that may be missing
PackIn(pack, S) == pack # NoPack /\ pack[1] \in S

\* assign_machine with the 450 g rule tried before the granola rule
assign_machine_450_first(row) ==
  LET pn   == Get(row, "product_name", <<>>)
      pn_l == lower(pn)
      pack == Get(row, "pack_size_g", NoPack)
  IN  IF pn \in M2_150_OVERRIDES THEN "M2"
      ELSE IF \/ \E x \in {kw_2kg, kw_5kg, kw_10kg} : contains(pn_l, x)
              \/ PackIn(pack, {2000, 5000, 10000}) THEN "BUCKET_LINE"
      ELSE IF PackIn(pack, {450}) \/ contains(pn_l, kw_450g) THEN "M2"
      ELSE IF contains(pn_l, kw_granola) \/ startswith(pn_l, kw_ss) THEN "M3"
      ELSE "M1"

\* agent.py assign_machine(row)
assign_machine(row) ==
  LET pn   == Get(row, "product_name", <<>>)
      pn_l == lower(pn)
      pack == Get(row, "pack_size_g", NoPack)
  IN  IF pn \in M2_150_OVERRIDES THEN "M2"
      ELSE IF \/ \E x \in {kw_2kg, kw_5kg, kw_10kg} : contains(pn_l, x)
              \/ PackIn(pack, {2000, 5000, 10000}) THEN "BUCKET_LINE"
      ELSE IF contains(pn_l, kw_granola) \/ startswith(pn_l, kw_ss) THEN "M3"
      ELSE IF PackIn(pack, {450}) \/ contains(pn_l, kw_450g) THEN "M2"
      ELSE IF \/ PackIn(pack, {150, 170, 175})
              \/ \E x \in {kw_150g, kw_170g, kw_175g} : contains(pn_l, x)
           THEN "M1"
      ELSE "M1"

\* dashboard.py assign_machine(row); its table M2_150_OVERRIDES (dashboard.py
\* 34-38) has the contents of the agent's.
dashboard_assign_machine(row) ==
  LET pn   == Get(row, "product_name", <<>>)
      pn_l == lower(pn)
      pack == Get(row, "pack_size_g", NoPack)
  IN  IF pn \in M2_150_OVERRIDES THEN "M2"
      ELSE IF \/ \E x \in {kw_2kg, kw_5kg, kw_10kg} : contains(pn_l, x)
              \/ PackIn(pack, {2000, 5000, 10000}) THEN "BUCKET_LINE"
      ELSE IF contains(pn_l, kw_granola) \/ startswith(pn_l, kw_ss) THEN "M3"
      ELSE IF PackIn(pack, {450}) \/ contains(pn_l, kw_450g) THEN "M2"
      ELSE IF \/ PackIn(pack, {150, 170, 175})
              \/ \E x \in {kw_150g, kw_170g, kw_175g} : contains(pn_l, x)
           THEN "M1"
      ELSE "M1"

\* The machine cells for which df["machine"].str.strip().eq("") holds; a
\* missing value has become "" by fillna("").
BlankMachine == {"", " "}

\* ensure_machine 165-166: the machine column is created when it is absent
WithMachineColumn(d) ==
  [i \in 1..Len(d) |-> IF "machine" \in DOMAIN d[i] THEN d[i]
                       ELSE SetCol(d[i], "machine", "")]

\* the rows of mask_blank, each with the line assign_machine returns for it
AssignCalls(d) ==
  LET blank == SelectSeq(d, LAMBDA r : r.machine \in BlankMachine)
  IN  [k \in 1..Len(blank) |-> [row |-> blank[k], res |-> assign_machine(blank[k])]]

\* the rows handed to dashboard.assign_machine, each with the line returned
DashboardCalls(d) ==
  LET blank == SelectSeq(d, LAMBDA r : r.machine \in BlankMachine)
  IN  [k \in 1..Len(blank) |->
         [row |-> blank[k], res |-> dashboard_assign_machine(blank[k])]]

\* ensure_machine(df)
EnsureMachine ==
  /\ pc = "ensure_machine"
  /\ LET d == WithMachineColumn(df)
     IN  /\ df' = [i \in 1..Len(d) |->
                     IF d[i].machine \in BlankMachine
                     THEN SetCol(d[i], "machine", assign_machine(d[i]))
                     ELSE d[i]]
         /\ classified' = AssignCalls(d)
  /\ pc' = "score_risk"
  /\ UNCHANGED <<M2_150_OVERRIDES, loaded, df_out, sequencer>>

\* run_pipeline 145-151 of dashboard.py: the same filling of blank cells,
\* with the dashboard's assign_machine
DashboardEnsureMachine ==
  /\ pc = "ensure_machine"
  /\ LET d == WithMachineColumn(df)
     IN  /\ df' = [i \in 1..Len(d) |->
                     IF d[i].machine \in BlankMachine
                     THEN SetCol(d[i], "machine", dashboard_assign_machine(d[i]))
                     ELSE d[i]]
         /\ classified' = DashboardCalls(d)
  /\ pc' = "dashboard_score_risk"
  /\ UNCHANGED <<M2_150_OVERRIDES, loaded, df_out, sequencer>>

(***************************************************************************)
(* Classification of single jobs: ensure_machine is applied to a table of  *)
(* one job, under each content of the override table.                      *)
(***************************************************************************)
ClassifyNames ==
  { pn_override, pn_granola_5kg, pn_plain_5KG, pn_plain, pn_ss_mango,
    pn_granola_450, pn_granola_150, pn_vanilla_450, pn_plain_150 }

ClassifyPacks == { NoPack, <<150>>, <<175>>, <<300>>, <<450>>, <<5000>> }

\* r without its machine column
WithoutMachine(r) == [f \in (DOMAIN r) \ {"machine"} |-> r[f]]

ClassifyRows ==
  LET rows == { Row(pn, fl_none, pack, FALSE, m) :
                  pn \in ClassifyNames, pack \in ClassifyPacks,
                  m \in {"", " ", "M3"} }
  IN  rows \cup { WithoutMachine(r) : r \in rows }

OverrideTables == SUBSET { pn_override, pn_granola_5kg }

InitClassify ==
  /\ pc = "ensure_machine"
  /\ run = 1
  /\ df \in [1..1 -> ClassifyRows]
  /\ groups = <<>>
  /\ df_jobs = <<>>
  /\ feats = <<>>
  /\ order = <<>>
  /\ remaining = {}
  /\ seq_rows = <<>>
  /\ cols = NoCols
  /\ ai = 0
  /\ out_parts = <<>>
  /\ out = <<>>
  /\ calls = <<>>
  /\ first_df = <<>>
  /\ first_out = <<>>
  /\ M2_150_OVERRIDES \in OverrideTables
  /\ classified = <<>>
  /\ loaded = <<>>
  /\ df_out = <<>>

NextClassify ==
  \/ EnsureMachine
  \/ DashboardEnsureMachine

SpecClassify == InitClassify /\ [][NextClassify]_vars

(***************************************************************************)
(* normalize.py                                                            *)
(***************************************************************************)
kw_kg         == <<"k", "g">>
kw_plain      == <<"p", "l", "a", "i", "n">>
kw_natural    == <<"n", "a", "t", "u", "r", "a", "l">>
kw_greek      == <<"g", "r", "e", "e", "k">>
kw_strawberry == <<"s", "t", "r", "a", "w", "b", "e", "r", "r", "y">>
kw_raspberry  == <<"r", "a", "s", "p", "b", "e", "r", "r", "y">>
kw_mango      == <<"m", "a", "n", "g", "o">>
kw_blueberry  == <<"b", "l", "u", "e", "b", "e", "r", "r", "y">>
kw_honey      == <<"h", "o", "n", "e", "y">>
kw_vanilla    == <<"v", "a", "n", "i", "l", "l", "a">>
kw_toffee     == <<"t", "o", "f", "f", "e", "e">>
kw_berry      == <<"b", "e", "r", "r", "y">>

plain_keywords == {kw_plain, kw_natural, kw_greek}
flav_keywords ==
  {kw_strawberry, kw_raspberry, kw_mango, kw_blueberry, kw_honey, kw_vanilla,
   kw_toffee, kw_choc, kw_granola, kw_berry}

\* norm_text(val) (normalize.py 8-11); a missing value is the empty string
norm_text(val) == replace(replace(lower(strip(val)), ".", " "), "_", " ")

\* is_plain_yoghurt(product_name, flavour_label) (normalize.py 308-326)
is_plain_yoghurt(product_name, flavour_label) ==
  LET s == norm_text(product_name)
      f == norm_text(flavour_label)
  IN  IF f # <<>> /\ f \notin plain_keywords THEN FALSE
      ELSE IF \E k \in flav_keywords : contains(s, k) THEN FALSE
      ELSE \E k \in plain_keywords : contains(s, k)

\* normalize.py assign_machine with the label "UNKNOWN" for an unmatched job
normalize_assign_machine_unknown(product_name, pack_size_g) ==
  LET s == norm_text(product_name)
  IN  IF PackIn(pack_size_g, {2000, 5000, 10000}) \/ contains(s, kw_kg)
        THEN "BUCKET_LINE"
      ELSE IF contains(s, kw_granola) THEN "M3"
      ELSE IF PackIn(pack_size_g, {450}) THEN "M2"
      ELSE IF PackIn(pack_size_g, {150, 170, 175}) THEN "M1"
      ELSE "UNKNOWN"

\* assign_machine(product_name, pack_size_g) of normalize.py (328-347), the
\* definition normalize_data calls
normalize_assign_machine(product_name, pack_size_g) ==
  LET s == norm_text(product_name)
  IN  IF PackIn(pack_size_g, {2000, 5000, 10000}) \/ contains(s, kw_kg)
        THEN "BUCKET_LINE"
      ELSE IF contains(s, kw_granola) THEN "M3"
      ELSE IF PackIn(pack_size_g, {450}) THEN "M2"
      ELSE IF PackIn(pack_size_g, {150, 170, 175}) THEN "M1"
      ELSE "UNKNOWN_LINE"

\* normalize_data 214-222 and 248-249 for one row: the columns
\* is_plain_yoghurt and machine are written from the columns as loaded,
\* then product_name is stripped
NormalizeRow(r) ==
  LET pn == Get(r, "product_name", <<>>)
      r1 == SetCol(r, "is_plain_yoghurt",
                   is_plain_yoghurt(pn, Get(r, "flavour_label", <<>>)))
      r2 == SetCol(r1, "machine",
                   normalize_assign_machine(pn, Get(r, "pack_size_g", NoPack)))
  IN  SetCol(r2, "product_name", strip(pn))

\* normalize_data(df): the rows normalised, then the rows whose product_name
\* is empty dropped (line 252)
NormalizeData ==
  /\ pc = "normalize_data"
  /\ df' = SelectSeq([i \in 1..Len(df) |-> NormalizeRow(df[i])],
                     LAMBDA r : r.product_name # <<>>)
  /\ pc' = "ensure_product_name"
  /\ UNCHANGED <<classify, sequencer>>

\* ensure_product_name(df): normalize_data has written the column
\* product_name, so df is returned as it is (agent.py 149-150)
EnsureProductName ==
  /\ pc = "ensure_product_name"
  /\ pc' = IF \A i \in 1..Len(df) : "product_name" \in DOMAIN df[i]
           THEN "ensure_machine" ELSE "raised"
  /\ UNCHANGED <<df, classify, sequencer>>

(***************************************************************************)
(* risk_model.py.  Scores and pH values are in hundredths (0.25 is 25,     *)
(* pH 3.6 is 360), pack sizes in grams.  The float sums and comparisons of *)
(* the source agree with this arithmetic on the weights and on pH values   *)
(* of two decimals.                                                        *)
(***************************************************************************)
DEFAULT_PH_MIN == 360
DEFAULT_PH_MAX == 490

RISK_PH_MISSING      == 25
RISK_PH_OUT_OF_RANGE == 120
RISK_PH_NEAR_LIMIT   == 35
RISK_COMPLEX         == 40
RISK_PACK_MISSING    == 20
RISK_PACK_UNUSUAL    == 20
RISK_NO_MACHINE      == 15
RISK_NO_PRODUCT_NAME == 60
\* the 0.1 of `ph_min + 0.1` and `ph_max - 0.1`
PH_NEAR_MARGIN == 10

kw_white_choc      == <<"w", "h", "i", "t", "e", " ", "c", "h", "o", "c">>
kw_white_chocolate == <<"w", "h", "i", "t", "e", " ", "c", "h", "o", "c", "o", "l", "a", "t", "e">>
kw_tophat  == <<"t", "o", "p", "h", "a", "t">>
kw_top_hat == <<"t", "o", "p", " ", "h", "a", "t">>
kw_layered == <<"l", "a", "y", "e", "r", "e", "d">>
kw_pieces  == <<"p", "i", "e", "c", "e", "s">>
kw_bits    == <<"b", "i", "t", "s">>

complex_keywords ==
  {kw_granola, kw_white_choc, kw_white_chocolate, kw_tophat, kw_top_hat,
   kw_layered, kw_pieces, kw_bits}

\* re.sub(r"\s+", " ", s): a blank that follows a blank is removed
collapse_spaces(s) ==
  RowsAt(s, {i \in 1..Len(s) : s[i] # " " \/ i = 1 \/ s[i - 1] # " "})

\* norm_text(x) of risk_model.py (14-20)
risk_norm_text(x) == collapse_spaces(lower(strip(x)))

\* _contains_any(text, keywords)
contains_any(text, keywords) ==
  LET t == risk_norm_text(text)
  IN  \E k \in keywords : contains(t, k)

\* one entry of `reasons`: the text and the value it quotes, if any
RiskPart(text, value) == <<text, value>>

\* variant: the weight replaces the score instead of being added to it
AddRiskAssign(acc, cond, weight, part) ==
  IF cond
  THEN [score |-> weight, reasons |-> Append(acc.reasons, part)]
  ELSE acc

\* one rule of _score_row: score += weight, reasons.append(part)
AddRisk(acc, cond, weight, part) ==
  IF cond
  THEN [score |-> acc.score + weight, reasons |-> Append(acc.reasons, part)]
  ELSE acc

\* _score_row(row, ph_min, ph_max) (risk_model.py 46-126): the score and
\* the reasons, which "; ".join(reasons) makes the reason text of
score_row(row, ph_min, ph_max) ==
  LET product_name  == Get(row, "product_name", <<>>)
      flavour_label == Get(row, "flavour_label", <<>>)
      machine       == Get(row, "machine", "")
      p_name == risk_norm_text(product_name)
      f_lab  == risk_norm_text(flavour_label)
      ph_val == Get(row, "ph", <<>>)
      has_ph == "ph" \in DOMAIN row
      nan_ph == ph_val = <<>>
      out_ph == ~nan_ph /\ (ph_val[1] < ph_min \/ ph_val[1] > ph_max)
      near_ph == /\ ~nan_ph
                 /\ ~out_ph
                 /\ \/ ph_val[1] < ph_min + PH_NEAR_MARGIN
                    \/ ph_val[1] > ph_max - PH_NEAR_MARGIN
      pack     == Get(row, "pack_size_g", NoPack)
      has_pack == "pack_size_g" \in DOMAIN row
      bad_pack == pack = NoPack \/ pack[1] <= 0
      odd_pack == ~bad_pack /\ (pack[1] < 80 \/ pack[1] > 12000)
      s0 == [score |-> 0, reasons |-> <<>>]
      s1 == AddRisk(s0, has_ph /\ nan_ph, RISK_PH_MISSING,
                    RiskPart("pH missing", <<>>))
      s2 == AddRisk(s1, has_ph /\ out_ph, RISK_PH_OUT_OF_RANGE,
                    RiskPart("pH out of range", ph_val))
      s3 == AddRisk(s2, has_ph /\ near_ph, RISK_PH_NEAR_LIMIT,
                    RiskPart("pH near limit", ph_val))
      s4 == AddRisk(s3, \/ contains_any(p_name, complex_keywords)
                        \/ contains_any(f_lab, complex_keywords),
                    RISK_COMPLEX, RiskPart("complex formulation", <<>>))
      s5 == AddRisk(s4, has_pack /\ bad_pack, RISK_PACK_MISSING,
                    RiskPart("pack size missing/invalid", <<>>))
      s6 == AddRisk(s5, has_pack /\ odd_pack, RISK_PACK_UNUSUAL,
                    RiskPart("unusual pack size", pack))
      s7 == AddRisk(s6, "machine" \in DOMAIN row /\ machine \in BlankMachine,
                    RISK_NO_MACHINE, RiskPart("machine not assigned", <<>>))
      s8 == AddRisk(s7, risk_norm_text(product_name) = <<>>,
                    RISK_NO_PRODUCT_NAME, RiskPart("product name missing", <<>>))
  IN  s8

\* _band(x) of score_risk (151-159)
risk_band(x) ==
  IF x >= 100 THEN "High" ELSE IF x >= 50 THEN "Medium" ELSE "Low"

\* score_risk(df) adds the columns risk_final, risk_reason and risk_band;
\* main assigns the returned risk_final again (agent.py 211)
ScoreRisk ==
  /\ pc = "score_risk"
  /\ df' = [i \in 1..Len(df) |->
              LET scored == score_row(df[i], DEFAULT_PH_MIN, DEFAULT_PH_MAX)
              IN  SetCol(SetCol(SetCol(df[i], "risk_final", scored.score),
                                "risk_reason", scored.reasons),
                         "risk_band", risk_band(scored.score))]
  /\ pc' = "call"
  /\ UNCHANGED <<classify, sequencer>>

(***************************************************************************)
(* Scoring of single jobs: score_risk on a table of one job                *)
(***************************************************************************)
pn_blank      == <<" ", " ">>
pn_white_choc == <<"W", "h", "i", "t", "e", " ", " ", "C", "h", "o", "c">>
fl_layered    == <<"L", "a", "y", "e", "r", "e", "d">>

\* r with the column name holding v when has is true, r otherwise
WithColumn(r, name, has, v) == IF has THEN SetCol(r, name, v) ELSE r

RiskPhs ==
  {<<>>, <<350>>, <<360>>, <<365>>, <<370>>, <<420>>, <<480>>, <<485>>,
   <<490>>, <<495>>}
RiskPacks == {NoPack, <<0>>, <<50>>, <<150>>, <<12000>>, <<12001>>}
RiskMachines == {"", "M1"}

\* the jobs scored: every column but product_name and flavour_label may be
\* absent from the table, and a cell may be empty
RiskRows ==
  { WithColumn(WithColumn(WithColumn(
        [product_name |-> pn, flavour_label |-> fl],
        "ph", has_ph, ph), "pack_size_g", has_pack, pack),
        "machine", has_m, m) :
      pn \in {pn_plain_150, pn_granola_450, pn_white_choc, pn_blank},
      fl \in {fl_none, fl_layered},
      has_ph \in BOOLEAN, ph \in RiskPhs,
      has_pack \in BOOLEAN, pack \in RiskPacks,
      has_m \in BOOLEAN, m \in RiskMachines }

InitRisk ==
  /\ pc = "score_risk"
  /\ run = 1
  /\ df \in [1..1 -> RiskRows]
  /\ groups = <<>>
  /\ df_jobs = <<>>
  /\ feats = <<>>
  /\ order = <<>>
  /\ remaining = {}
  /\ seq_rows = <<>>
  /\ cols = NoCols
  /\ ai = 0
  /\ out_parts = <<>>
  /\ out = <<>>
  /\ calls = <<>>
  /\ first_df = <<>>
  /\ first_out = <<>>
  /\ M2_150_OVERRIDES = {}
  /\ classified = <<>>
  /\ loaded = <<>>
  /\ df_out = <<>>

NextRisk == ScoreRisk

SpecRisk == InitRisk /\ [][NextRisk]_vars

(***************************************************************************)
(* agent.py add_changeover_and_washdown (70-138), ensure_action (175-192)  *)
(* and the steps of main that follow the proposed sequence (220-265).      *)
(***************************************************************************)
\* one entry of the agent's washdown reasons, written as the entries of
\* the sequencer's reasons are: a text and the two values it is formatted
\* with.  The source's arrows are written <-> here.
AgentFlavourPart(from, to) == <<"Flavour change", from, to>>

\* f"Product change on {m}: {pprod} -> {prod}"; m is the row's machine
AgentProductPart(m, from, to) == <<"Product change on", from, to>>

\* s.rstrip(" |") on a str
rstrip_bar(s) ==
  LET keep == {i \in 1..Len(s) : s[i] \notin {" ", "|"}}
  IN  IF keep = {} THEN <<>>
      ELSE SubSeq(s, 1, CHOOSE i \in keep : \A j \in keep : j <= i)

\* (existing + " | " + joined).strip(" | "): with nothing existing the
\* leading separator goes, and the characters ' ' and '|' are taken off
\* the end of the text, which is the end of the last entry's last value
strip_bar(reasons) ==
  LET n    == Len(reasons)
      last == reasons[n]
  IN  IF n = 0 \/ last[3] = <<>> THEN reasons
      ELSE [reasons EXCEPT ![n] = <<last[1], last[2], rstrip_bar(last[3])>>]

\* the position of a machine label in Python's string order
MachineRank(m) ==
  CHOOSE k \in 1..Len(MachineSortOrder) : MachineSortOrder[k] = m

\* df.sort_values(["machine"], na_position="last").reset_index(drop=True)
\* (line 94).  The default kind is quicksort, which pandas documents as not
\* stable: rows of one machine may come out in any order.  The set of the
\* tables the call can return.
sort_values_machine(d) ==
  LET n     == Len(d)
      perms == {p \in [1..n -> 1..n] :
                  /\ \A i, j \in 1..n : i # j => p[i] # p[j]
                  /\ \A k \in 1..(n - 1) :
                       MachineRank(d[p[k]].machine)
                         <= MachineRank(d[p[k + 1]].machine)}
  IN  IF \A i \in 1..n : "machine" \in DOMAIN d[i]
      THEN {[k \in 1..n |-> d[p[k]]] : p \in perms}
      ELSE {d}

\* lines 81-90: the four columns exist, with False and "" where missing
WithFlagColumns(r) ==
  SetCol(SetCol(SetCol(SetCol(r,
    "changeover_required", Get(r, "changeover_required", FALSE)),
    "changeover_reason", Get(r, "changeover_reason", <<>>)),
    "washdown_required", Get(r, "washdown_required", FALSE)),
    "washdown_reason", Get(r, "washdown_reason", <<>>))

\* variant: the flavour rule does not ask for both labels to be non-empty
agent_washdown_reasons_any_label(m, p, c) ==
  LET prod  == Get(c, "product_name", <<>>)
      pprod == Get(p, "product_name", <<>>)
      flav  == Get(c, "flavour_label", <<>>)
      pflav == Get(p, "flavour_label", <<>>)
  IN  (IF m = "M3" /\ prod # <<>> /\ pprod # <<>> /\ prod # pprod
       THEN <<Part("M3 granola line: washdown required for product change")>>
       ELSE <<>>)
      \o (IF Get(p, "is_plain_yoghurt", FALSE)
              # Get(c, "is_plain_yoghurt", FALSE)
          THEN <<Part("Plain <-> flavoured switch")>> ELSE <<>>)
      \o (IF pflav # flav
          THEN <<AgentFlavourPart(pflav, flav)>> ELSE <<>>)

\* lines 116-128: the list `reasons` for the row c that follows the row p
\* on machine m
agent_washdown_reasons(m, p, c) ==
  LET prod  == Get(c, "product_name", <<>>)
      pprod == Get(p, "product_name", <<>>)
      flav  == Get(c, "flavour_label", <<>>)
      pflav == Get(p, "flavour_label", <<>>)
  IN  (IF m = "M3" /\ prod # <<>> /\ pprod # <<>> /\ prod # pprod
       THEN <<Part("M3 granola line: washdown required for product change")>>
       ELSE <<>>)
      \o (IF Get(p, "is_plain_yoghurt", FALSE)
              # Get(c, "is_plain_yoghurt", FALSE)
          THEN <<Part("Plain <-> flavoured switch")>> ELSE <<>>)
      \o (IF pflav # <<>> /\ flav # <<>> /\ pflav # flav
          THEN <<AgentFlavourPart(pflav, flav)>> ELSE <<>>)

\* one iteration of `for i, row in df.iterrows()` (lines 98-136) on the
\* sorted table d: prev[m] is the nearest earlier row of the same machine,
\* and a row without a machine is passed over
agent_annotate_row(d, i) ==
  LET row   == WithFlagColumns(d[i])
      m     == Get(row, "machine", "")
      prevs == {j \in 1..(i - 1) : Get(d[j], "machine", "") = m}
  IN  IF m = "" \/ prevs = {} THEN row
      ELSE
        LET p       == d[CHOOSE j \in prevs : \A k \in prevs : k <= j]
            prod    == Get(row, "product_name", <<>>)
            pprod   == Get(p, "product_name", <<>>)
            chg     == prod # <<>> /\ pprod # <<>> /\ prod # pprod
            reasons == agent_washdown_reasons(m, p, row)
            r1 == IF chg
                  THEN SetCol(SetCol(row, "changeover_required", TRUE),
                              "changeover_reason",
                              <<AgentProductPart(m, pprod, prod)>>)
                  ELSE row
        IN  IF reasons # <<>>
            THEN SetCol(SetCol(r1, "washdown_required", TRUE),
                        "washdown_reason",
                        strip_bar(row.washdown_reason \o reasons))
            ELSE r1

\* the loop over a table that is already sorted by machine
agent_annotate(d) == [i \in 1..Len(d) |-> agent_annotate_row(d, i)]

\* add_changeover_and_washdown(df): the set of the tables it can return
add_changeover_and_washdown(d) ==
  {agent_annotate(s) : s \in sort_values_machine(d)}

\* preferred_cols (agent.py 230-243)
preferred_cols ==
  {"machine", "product_name", "pack_size_g", "flavour_label",
   "is_plain_yoghurt", "risk_final", "risk_reason", "changeover_required",
   "changeover_reason", "washdown_required", "washdown_reason", "action"}

\* df[cols] for one row, cols being the preferred columns that df has
SelectCols(r) == [c \in preferred_cols \cap DOMAIN r |-> r[c]]

\* df_out = seq.copy() (agent.py 221)
SaveSequence ==
  /\ pc = "actions"
  /\ df_out' = out
  /\ pc' = "add_changeover"
  /\ UNCHANGED <<df, M2_150_OVERRIDES, classified, loaded, sequencer>>

\* df = add_changeover_and_washdown(df) (agent.py 224)
AddChangeoverAndWashdown ==
  /\ pc = "add_changeover"
  /\ df' \in add_changeover_and_washdown(df)
  /\ pc' = "ensure_action"
  /\ UNCHANGED <<classify, sequencer>>

\* df = ensure_action(df) (agent.py 227): sequence_actions was imported,
\* so the action labels are sequence_actions(df)
EnsureAction ==
  /\ pc = "ensure_action"
  /\ df' = [i \in 1..Len(df) |->
              SetCol(df[i], "action", sequence_actions(df)[i])]
  /\ pc' = "select_output"
  /\ UNCHANGED <<classify, sequencer>>

\* df_out = df[cols].copy() (agent.py 244-245); df_out is then printed and
\* saved with to_csv (247-265)
SelectOutput ==
  /\ pc = "select_output"
  /\ df_out' = [i \in 1..Len(df) |-> SelectCols(df[i])]
  /\ pc' = "written"
  /\ UNCHANGED <<df, M2_150_OVERRIDES, classified, loaded, sequencer>>

(***************************************************************************)
(* The two annotators on one ordered table: add_changeover_and_washdown    *)
(* of agent.py, and the annotation loop of build_sequence_for_machine      *)
(* (sequencer.py 196-221) walked over the rows in the same order.          *)
(***************************************************************************)
\* lines 196-221 for the ordered rows d: ranks, the first row's columns,
\* and the columns of each later row from transition_cost on the pair
sequencer_annotate(d) ==
  [k \in 1..Len(d) |->
     LET e == IF k = 1
              THEN [chg_flag    |-> FirstRowCols.chg_flags[1],
                    chg_reason  |-> FirstRowCols.chg_reasons[1],
                    wash_flag   |-> FirstRowCols.wash_flags[1],
                    wash_reason |-> FirstRowCols.wash_reasons[1]]
              ELSE AnnotateRow(d[k - 1], d[k])
     IN  SetCol(SetCol(SetCol(SetCol(SetCol(d[k],
           "sequence_rank", k),
           "changeover_required", e.chg_flag),
           "changeover_reason", e.chg_reason),
           "washdown_required", e.wash_flag),
           "washdown_reason", e.wash_reason)]

\* the jobs of the ordered tables: the catalogue, and a flavoured job
\* whose label is empty
AnnotatorRows ==
  Catalogue \cup {Row(pn_vanilla_150, fl_none, <<150>>, FALSE, "M1")}

InitAnnotators ==
  /\ pc = "annotators"
  /\ run = 1
  /\ df \in UNION {[1..n -> AnnotatorRows] : n \in 1..MaxJobs}
  /\ groups = <<>>
  /\ df_jobs = <<>>
  /\ feats = <<>>
  /\ order = <<>>
  /\ remaining = {}
  /\ seq_rows = <<>>
  /\ cols = NoCols
  /\ ai = 0
  /\ out_parts = <<>>
  /\ out = <<>>
  /\ calls = <<>>
  /\ first_df = <<>>
  /\ first_out = <<>>
  /\ M2_150_OVERRIDES = {}
  /\ classified = <<>>
  /\ loaded = <<>>
  /\ df_out = <<>>

\* add_changeover_and_washdown(df) sorts df and walks it; the sequencer's
\* loop annotates the rows in the order the agent walked them
AnnotateBothWays ==
  /\ pc = "annotators"
  /\ \E s \in sort_values_machine(df) :
       /\ df' = s
       /\ df_out' = agent_annotate(s)
       /\ out' = sequencer_annotate(s)
  /\ pc' = "annotated"
  /\ UNCHANGED <<M2_150_OVERRIDES, classified, loaded, run, groups, locals,
                 out_parts, calls, first_df, first_out>>

NextAnnotators == AnnotateBothWays

SpecAnnotators == InitAnnotators /\ [][NextAnnotators]_vars

(***************************************************************************)
(* agent.py main (194-265): the loaded plan goes through normalize_data,   *)
(* ensure_product_name, ensure_machine, score_risk, propose_sequence and   *)
(* sequence_actions, then through add_changeover_and_washdown and          *)
(* ensure_action, and df_out is written.                                   *)
(***************************************************************************)
MaxPlan == 2

pn_greek_honey_450 == <<"G", "r", "e", "e", "k", " ", "H", "o", "n", "e", "y", " ", "4", "5", "0", "g">>

\* a row of the loaded plan
PlanRow(pn, fl, pack, m) ==
  [product_name |-> pn, flavour_label |-> fl, pack_size_g |-> pack,
   machine |-> m]

PlanRows ==
  { PlanRow(pn_plain_150,       fl_plain,   <<150>>, ""),
    PlanRow(pn_plain_150,       fl_plain,   <<150>>, "M2"),
    PlanRow(pn_vanilla_150,     fl_vanilla, <<150>>, ""),
    PlanRow(pn_plain,           fl_none,    NoPack,  ""),
    PlanRow(pn_ss_mango,        fl_mango,   NoPack,  ""),
    PlanRow(pn_override,        fl_none,    <<300>>, ""),
    PlanRow(pn_vanilla_450,     fl_vanilla, <<450>>, ""),
    PlanRow(pn_greek_honey_450, fl_none,    <<450>>, ""),
    PlanRow(pn_granola_450,     fl_mango,   <<450>>, ""),
    PlanRow(pn_plain_5KG,       fl_plain,   NoPack,  ""),
    PlanRow(pn_blank,           fl_none,    <<150>>, "") }

Plans == UNION {[1..n -> PlanRows] : n \in 1..MaxPlan}

InitMain ==
  /\ pc = "normalize_data"
  /\ run = 1
  /\ df \in Plans
  /\ groups = <<>>
  /\ df_jobs = <<>>
  /\ feats = <<>>
  /\ order = <<>>
  /\ remaining = {}
  /\ seq_rows = <<>>
  /\ cols = NoCols
  /\ ai = 0
  /\ out_parts = <<>>
  /\ out = <<>>
  /\ calls = <<>>
  /\ first_df = <<>>
  /\ first_out = <<>>
  /\ M2_150_OVERRIDES = {}
  /\ classified = <<>>
  /\ loaded = df
  /\ df_out = <<>>

NextMain ==
  \/ NormalizeData
  \/ EnsureProductName
  \/ EnsureMachine
  \/ ScoreRisk
  \/ ProposeSequence
  \/ SingleJobPartition
  \/ ChooseStart
  \/ GreedyStep
  \/ BuildTransitionColumns
  \/ AnnotateStep
  \/ FinishMachine
  \/ Concat
  \/ SequenceActions
  \/ SaveSequence
  \/ AddChangeoverAndWashdown
  \/ EnsureAction
  \/ SelectOutput

SpecMain == InitMain /\ [][NextMain]_vars

(***************************************************************************)
(* Vocabulary of the properties                                            *)
(***************************************************************************)
Machines == {MachineSortOrder[k] : k \in 1..Len(MachineSortOrder)}

\* the rows of d on machine m, in the order of d
RowsOf(d, m) == SelectSeq(d, LAMBDA r : r.machine = m)

\* the sequencing key of a row, and the set of keys of a list of rows
JobKey(r) == <<r.product_name, r.flavour_label, r.pack_size_g>>
KeysOf(rows) == {JobKey(rows[i]) : i \in 1..Len(rows)}

\* the input columns of an output row
InputCols(r) ==
  Row(r.product_name, r.flavour_label, r.pack_size_g, r.is_plain_yoghurt,
      r.machine)

C2_GreedyStep ==
  pc \in {"greedy", "annotate"} =>
    \A p \in 2..Len(order) :
      LET last == order[p - 1]
          j    == order[p]
          cand == (1..Len(df_jobs)) \ {order[q] : q \in 1..(p - 1)}
          cost(k) == transition_cost(feats[last], feats[k]).cost
      IN  /\ j \in cand
          /\ \A k \in cand :
               /\ cost(j) <= cost(k)
               /\ cost(k) = cost(j) => j <= k

\* a step had two candidates of equal least cost and placed the earlier; a
\* later candidate of the same cost is still unplaced
C2_Witness ==
  /\ pc = "greedy"
  /\ Len(order) = 2
  /\ \E k \in remaining :
       /\ order[2] < k
       /\ transition_cost(feats[order[1]], feats[k]).cost
            = transition_cost(feats[order[1]], feats[order[2]]).cost

(***************************************************************************)
(* C3  Start job: in every machine partition with more than one distinct   *)
(* job, the row of rank 1 is the first row in input order among those of   *)
(* least cleaning burden (-5 plain, -2 not granola, -2 no nut risk,        *)
(* -1 no chocolate).                                                       *)
(***************************************************************************)
CleaningBurden(r) ==
  LET f == make_features(r)
  IN  (IF f.is_plain THEN -5 ELSE 0) + (IF f.is_granola THEN 0 ELSE -2)
      + (IF f.has_nut_risk THEN 0 ELSE -2) + (IF f.has_choc THEN 0 ELSE -1)

C3_StartJob ==
  pc = "done" =>
    \A m \in Machines :
      LET rows == RowsOf(df, m)
          part == RowsOf(out, m)
      IN  Cardinality(KeysOf(rows)) > 1 =>
            /\ part[1].sequence_rank = 1
            /\ \E i \in 1..Len(rows) :
                 /\ InputCols(part[1]) = rows[i]
                 /\ \A j \in 1..Len(rows) :
                      CleaningBurden(rows[i]) <= CleaningBurden(rows[j])
                 /\ \A j \in 1..(i - 1) :
                      CleaningBurden(rows[j]) # CleaningBurden(rows[i])

\* two jobs share the least burden and the start job is not the first row
\* of the partition
C3_Witness ==
  /\ pc = "done"
  /\ LET rows == RowsOf(df, "M1")
         part == RowsOf(out, "M1")
     IN  /\ Len(rows) = 3
         /\ Cardinality(KeysOf(rows)) = 3
         /\ InputCols(part[1]) = rows[2]
         /\ CleaningBurden(rows[2]) = CleaningBurden(rows[3])
         /\ CleaningBurden(rows[2]) < CleaningBurden(rows[1])

(***************************************************************************)
(* C4  Partition isolation: when the second call's input has the same      *)
(* rows on a machine as the first call's (jobs of another machine were     *)
(* removed), the rows returned for that machine are the same: the same     *)
(* order, ranks, flags and reasons.                                        *)
(***************************************************************************)
C4_PartitionIsolation ==
  (pc = "done" /\ run = 2) =>
    \A m \in Machines :
      RowsOf(df, m) = RowsOf(first_df, m) =>
        RowsOf(out, m) = RowsOf(first_out, m)

\* a job of another machine was removed and a partition of two jobs with a
\* washdown between them came out as before
C4_Witness ==
  /\ pc = "done" /\ run = 2
  /\ Len(df) < Len(first_df)
  /\ RowsOf(df, "M1") = RowsOf(first_df, "M1")
  /\ Len(RowsOf(out, "M1")) = 2
  /\ RowsOf(out, "M1")[2].washdown_required
  /\ RowsOf(out, "M1") = RowsOf(first_out, "M1")

(***************************************************************************)
(* C5  Cost additivity: for every pair on one machine, the minutes         *)
(* transition_cost returns are the sum of the deltas of the triggers that  *)
(* fire, and washdown is true exactly when a trigger other than the base   *)
(* product change fires.                                                   *)
(***************************************************************************)
TriggerProduct(a, b) == a.product_name # b.product_name
TriggerM3(a, b)      == a.machine = "M3" /\ a.product_name # b.product_name
TriggerFlavour(a, b) ==
  a.flavour # <<>> /\ b.flavour # <<>> /\ a.flavour # b.flavour
TriggerPlain(a, b)   == a.is_plain # b.is_plain
TriggerGranola(a, b) == a.is_granola # b.is_granola
TriggerNut(a, b)     == a.has_nut_risk # b.has_nut_risk
TriggerChoc(a, b)    == a.has_choc # b.has_choc

TriggerSum(a, b) ==
  (IF TriggerProduct(a, b) THEN 10 ELSE 0)
  + (IF TriggerM3(a, b) THEN 25 ELSE 0)
  + (IF TriggerFlavour(a, b) THEN 12 ELSE 0)
  + (IF TriggerPlain(a, b) THEN 8 ELSE 0)
  + (IF TriggerGranola(a, b) THEN 15 ELSE 0)
  + (IF TriggerNut(a, b) THEN 20 ELSE 0)
  + (IF TriggerChoc(a, b) THEN 20 ELSE 0)

C5_CostAdditivity ==
  \A k \in 1..Len(calls) :
    LET a == calls[k].a
        b == calls[k].b
    IN  a.machine = b.machine =>
          /\ calls[k].res.cost = TriggerSum(a, b)
          /\ calls[k].res.washdown <=>
               \/ TriggerM3(a, b) \/ TriggerFlavour(a, b)
               \/ TriggerPlain(a, b) \/ TriggerGranola(a, b)
               \/ TriggerNut(a, b) \/ TriggerChoc(a, b)

\* one scan priced a pair with only the base product change (10 minutes,
\* no washdown) and a pair with three triggers
C5_Witness ==
  \E k1, k2 \in 1..Len(calls) :
    /\ calls[k1].res.cost = 10 /\ ~calls[k1].res.washdown
    /\ TriggerProduct(calls[k1].a, calls[k1].b)
    /\ calls[k2].res.cost = 50 /\ calls[k2].res.washdown
    /\ TriggerNut(calls[k2].a, calls[k2].b)
    /\ TriggerChoc(calls[k2].a, calls[k2].b)

C8_RanksPermutation ==
  /\ pc \in {"greedy", "annotate"} =>
       /\ \A p, q \in 1..Len(order) : order[p] = order[q] => p = q
       /\ remaining = (1..Len(df_jobs)) \ {order[p] : p \in 1..Len(order)}
       /\ {order[p] : p \in 1..Len(order)} \subseteq 1..Len(df_jobs)
  /\ pc = "annotate" => Len(order) = Len(df_jobs)
  /\ pc = "raised" => df = <<>>
  /\ pc = "done" =>
       \A m \in Machines :
         LET part == RowsOf(out, m)
         IN  /\ \A k \in 1..Len(part) : part[k].sequence_rank = k
             /\ KeysOf(part) = KeysOf(RowsOf(df, m))
             /\ \A p, q \in 1..Len(part) :
                  JobKey(part[p]) = JobKey(part[q]) => p = q

\* a partition of three distinct jobs came out in an order that is not the
\* input order
C8_Witness ==
  /\ pc = "done"
  /\ LET part == RowsOf(out, "M1")
     IN  /\ Len(part) = 3
         /\ part[3].sequence_rank = 3
         /\ InputCols(part[1]) # RowsOf(df, "M1")[1]

(***************************************************************************)
(* C9  Machine classification is first-match-wins over the rule order, for *)
(* every product name and pack size: (1) name in the override table -> M2; *)
(* (2) pack size in {2000, 5000, 10000} or name contains 2kg/5kg/10kg ->   *)
(* BUCKET_LINE; (3) name contains "granola" or starts with "ss " -> M3;    *)
(* (4) pack size 450 or name contains 450g -> M2; (5) and (6) everything   *)
(* else -> M1.  The name tests of (2)-(5) are case-insensitive, the look-up *)
(* in the override table is by the exact name.  Every job whose machine    *)
(* cell is blank or absent gets a line.                                    *)
(***************************************************************************)
NameHas(pn, tokens) == \E x \in tokens : contains(lower(pn), x)

RuleOverride(r) == r.product_name \in M2_150_OVERRIDES
RuleBucket(r) ==
  \/ PackIn(r.pack_size_g, {2000, 5000, 10000})
  \/ NameHas(r.product_name, {kw_2kg, kw_5kg, kw_10kg})
RuleGranola(r) ==
  \/ NameHas(r.product_name, {kw_granola})
  \/ startswith(lower(r.product_name), kw_ss)
Rule450(r) ==
  \/ PackIn(r.pack_size_g, {450})
  \/ NameHas(r.product_name, {kw_450g})

C9_FirstMatchWins ==
  /\ \A k \in 1..Len(classified) :
       LET r   == classified[k].row
           res == classified[k].res
       IN  /\ RuleOverride(r) => res = "M2"
           /\ ~RuleOverride(r) /\ RuleBucket(r) => res = "BUCKET_LINE"
           /\ ~RuleOverride(r) /\ ~RuleBucket(r) /\ RuleGranola(r)
                => res = "M3"
           /\ ~RuleOverride(r) /\ ~RuleBucket(r) /\ ~RuleGranola(r)
                /\ Rule450(r) => res = "M2"
           /\ ~RuleOverride(r) /\ ~RuleBucket(r) /\ ~RuleGranola(r)
                /\ ~Rule450(r) => res = "M1"
  /\ pc \in {"score_risk", "dashboard_score_risk"} =>
       /\ Len(classified) = Len(df)
            \/ \A i \in 1..Len(df) : df[i].machine = "M3"
       /\ \A i \in 1..Len(df) :
            df[i].machine \in {"M1", "M2", "M3", "BUCKET_LINE"}

\* a 150 g product listed in the override table has been classified M2
C9_Witness ==
  /\ pc = "score_risk"
  /\ Len(classified) = 1
  /\ classified[1].row.product_name = pn_override
  /\ classified[1].row.pack_size_g = <<150>>
  /\ RuleOverride(classified[1].row)
  /\ df[1].machine = "M2"

C11_AsClaimed ==
  pc = "done" =>
    LET rows == RowsOf(out, "UNKNOWN")
    IN  [i \in 1..Len(rows) |-> InputCols(rows[i])]
          = drop_duplicates(RowsOf(df, "UNKNOWN"))

(***************************************************************************)
(* C12  Stable machine ordering of the merged output: the rows of each     *)
(* machine form one block, the blocks come in one fixed order of the       *)
(* machines whatever the order of the input rows (BUCKET_LINE, M1, M2, M3, *)
(* then the unknown labels), so the UNKNOWN block comes after the block of *)
(* every classified machine; every machine of the input has its block.     *)
(***************************************************************************)
CanonicalOrder ==
  <<"BUCKET_LINE", "M1", "M2", "M3", "UNKNOWN", "UNKNOWN_LINE">>

LineRank(m) ==
  CHOOSE k \in 1..Len(CanonicalOrder) : CanonicalOrder[k] = m

C12_MachineOrder ==
  pc = "done" =>
    /\ \A i, j \in 1..Len(out) :
         i < j => LineRank(out[i].machine) <= LineRank(out[j].machine)
    /\ {out[i].machine : i \in 1..Len(out)}
         = {df[i].machine : i \in 1..Len(df)}

\* an input UNKNOWN, M3, BUCKET_LINE has come out BUCKET_LINE, M3, UNKNOWN
C12_Witness ==
  /\ pc = "done"
  /\ Len(df) = 3
  /\ df[1].machine = "UNKNOWN"
  /\ df[2].machine = "M3"
  /\ df[3].machine = "BUCKET_LINE"
  /\ out[1].machine = "BUCKET_LINE"
  /\ out[2].machine = "M3"
  /\ out[3].machine = "UNKNOWN"

(***************************************************************************)
(* C13  Risk score is additive: for every job the score of _score_row is   *)
(* non-negative and equal to the sum of the weights of exactly the rules   *)
(* that fire (in hundredths: pH cell empty 25; pH outside the band 120; pH *)
(* inside the band and less than 0.1 from a bound 35; complex-formulation  *)
(* keyword in name or flavour 40; pack size empty or <= 0 20; pack size    *)
(* outside 80..12000 20; machine blank 15; product name empty 60), and the *)
(* reason text lists one reason for each rule that fired.  The pH rules    *)
(* and the pack-size rules read a column of the table; at most one pH rule *)
(* and at most one pack-size rule fires.  A job whose pack size and pH     *)
(* cells are both empty scores at least 45, with the reasons "pH missing"  *)
(* and "pack size missing/invalid".                                        *)
(***************************************************************************)
PhEmpty(r)   == "ph" \in DOMAIN r /\ r.ph = <<>>
PhOutside(r) ==
  /\ "ph" \in DOMAIN r
  /\ r.ph # <<>>
  /\ (r.ph[1] < 360 \/ r.ph[1] > 490)
PhNear(r) ==
  /\ "ph" \in DOMAIN r
  /\ r.ph # <<>>
  /\ r.ph[1] >= 360 /\ r.ph[1] <= 490
  /\ (r.ph[1] - 360 < 10 \/ 490 - r.ph[1] < 10)
ComplexFormulation(r) ==
  \E k \in complex_keywords :
    \/ contains(risk_norm_text(r.product_name), k)
    \/ contains(risk_norm_text(r.flavour_label), k)
PackEmpty(r) ==
  /\ "pack_size_g" \in DOMAIN r
  /\ (r.pack_size_g = <<>> \/ r.pack_size_g[1] <= 0)
PackUnusual(r) ==
  /\ "pack_size_g" \in DOMAIN r
  /\ r.pack_size_g # <<>>
  /\ r.pack_size_g[1] > 0
  /\ (r.pack_size_g[1] < 80 \/ r.pack_size_g[1] > 12000)
MachineBlank(r) == "machine" \in DOMAIN r /\ r.machine \in {"", " "}
NameEmpty(r)    == strip(r.product_name) = <<>>

Weight(fired, w) == IF fired THEN w ELSE 0

HasReason(r, text) ==
  \E k \in 1..Len(r.risk_reason) : r.risk_reason[k][1] = text

C13_RiskAdditive ==
  pc = "call" =>
    \A i \in 1..Len(df) :
      LET r == df[i]
          n(fired) == IF fired THEN 1 ELSE 0
      IN  /\ r.risk_final >= 0
          /\ r.risk_final =
               Weight(PhEmpty(r), 25) + Weight(PhOutside(r), 120)
               + Weight(PhNear(r), 35) + Weight(ComplexFormulation(r), 40)
               + Weight(PackEmpty(r), 20) + Weight(PackUnusual(r), 20)
               + Weight(MachineBlank(r), 15) + Weight(NameEmpty(r), 60)
          /\ Len(r.risk_reason) =
               n(PhEmpty(r)) + n(PhOutside(r)) + n(PhNear(r))
               + n(ComplexFormulation(r)) + n(PackEmpty(r))
               + n(PackUnusual(r)) + n(MachineBlank(r)) + n(NameEmpty(r))
          /\ PhEmpty(r) <=> HasReason(r, "pH missing")
          /\ PhOutside(r) <=> HasReason(r, "pH out of range")
          /\ PhNear(r) <=> HasReason(r, "pH near limit")
          /\ ComplexFormulation(r) <=> HasReason(r, "complex formulation")
          /\ PackEmpty(r) <=> HasReason(r, "pack size missing/invalid")
          /\ PackUnusual(r) <=> HasReason(r, "unusual pack size")
          /\ MachineBlank(r) <=> HasReason(r, "machine not assigned")
          /\ NameEmpty(r) <=> HasReason(r, "product name missing")
          /\ n(PhEmpty(r)) + n(PhOutside(r)) + n(PhNear(r)) <= 1
          /\ n(PackEmpty(r)) + n(PackUnusual(r)) <= 1
          /\ PhEmpty(r) /\ PackEmpty(r) =>
               /\ r.risk_final >= 45
               /\ HasReason(r, "pH missing")
               /\ HasReason(r, "pack size missing/invalid")

\* a job with empty pH and pack-size cells and nothing else to report has
\* been scored 45 with exactly the two reasons
C13_Witness ==
  /\ pc = "call"
  /\ PhEmpty(df[1])
  /\ PackEmpty(df[1])
  /\ df[1].pack_size_g = <<>>
  /\ df[1].risk_final = 45
  /\ df[1].risk_reason =
       <<RiskPart("pH missing", <<>>),
         RiskPart("pack size missing/invalid", <<>>)>>

(***************************************************************************)
(* C14  Invalid input rejects the batch: a plan that holds a job with a    *)
(* missing or empty product_name does not get through the pipeline; the    *)
(* pipeline never drops that row and goes on with the remaining rows.      *)
(***************************************************************************)
C14_AsClaimed ==
  pc \in {"done", "actions"} =>
    \A i \in 1..Len(loaded) : strip(loaded[i].product_name) # <<>>

(***************************************************************************)
(* C15  Duplicate collapse: within one machine the input rows that share   *)
(* (product_name, flavour_label, pack_size_g) collapse to the first such   *)
(* row in input order before ordering, so the output of a machine has      *)
(* exactly one row for each distinct key of its input, and a partition     *)
(* whose rows all share one key comes out as a single job: rank 1, no      *)
(* changeover, no washdown.                                                *)
(***************************************************************************)
\* the columns D of a row
Restrict(r, D) == [f \in D |-> r[f]]

\* the first row of rows that has the key k
FirstOfKey(rows, k) ==
  rows[CHOOSE i \in 1..Len(rows) :
         /\ JobKey(rows[i]) = k
         /\ \A j \in 1..(i - 1) : JobKey(rows[j]) # k]

C15_DuplicateCollapse ==
  pc = "done" =>
    \A m \in Machines :
      LET in_m  == RowsOf(df, m)
          out_m == RowsOf(out, m)
      IN  /\ KeysOf(out_m) = KeysOf(in_m)
          /\ Len(out_m) = Cardinality(KeysOf(in_m))
          /\ \A i \in 1..Len(out_m) :
               Restrict(out_m[i], DOMAIN in_m[1])
                 = FirstOfKey(in_m, JobKey(out_m[i]))
          /\ Cardinality(KeysOf(in_m)) = 1 =>
               /\ out_m[1].sequence_rank = 1
               /\ ~out_m[1].changeover_required
               /\ ~out_m[1].washdown_required

\* two rows of one job with volumes 20 and 10 have come out as the one row
\* with volume 20
C15_Witness ==
  /\ pc = "done"
  /\ Len(df) = 2
  /\ JobKey(df[1]) = JobKey(df[2])
  /\ df[1].machine = df[2].machine
  /\ df[1].batch_volume_l = 20
  /\ df[2].batch_volume_l = 10
  /\ Len(out) = 1
  /\ out[1].batch_volume_l = 20
  /\ out[1].sequence_rank = 1

(***************************************************************************)
(* C16  Run compression: the collapse of a sequenced job list merges each  *)
(* maximal block of consecutive jobs sharing (machine, product_name,       *)
(* pack_size_g, flavour_label) into one run whose quantity field is the    *)
(* sum of that field over the member jobs of the block.  Stated for the    *)
(* plans in which the rows of a job are consecutive, where the blocks are  *)
(* the jobs, and for the quantity column batch_volume_l.                   *)
(***************************************************************************)
RECURSIVE SumVolume(_)
SumVolume(rows) ==
  IF rows = <<>> THEN 0
  ELSE Head(rows).batch_volume_l + SumVolume(Tail(rows))

RunKey(r) == <<r.machine, r.product_name, r.pack_size_g, r.flavour_label>>

\* the rows of each job are consecutive in d
RunsConsecutive(d) ==
  \A i, j \in 1..Len(d) :
    (i < j /\ RunKey(d[i]) = RunKey(d[j])) =>
      \A k \in i..j : RunKey(d[k]) = RunKey(d[i])

C16_AsClaimed ==
  (pc = "done" /\ RunsConsecutive(df)) =>
    \A i \in 1..Len(out) :
      out[i].batch_volume_l
        = SumVolume(SelectSeq(df, LAMBDA r : RunKey(r) = RunKey(out[i])))

(***************************************************************************)
(* C17  Action label priority: for every row of the sequence table,        *)
(* sequence_actions gives "WASHDOWN + RUN" when washdown_required is true  *)
(* (also when changeover_required is true as well), "CHANGEOVER + RUN"     *)
(* when only changeover_required is true, and "RUN" when neither is; the   *)
(* label is a function of the two flags.                                   *)
(***************************************************************************)
C17_ActionPriority ==
  pc = "actions" =>
    \A i \in 1..Len(out) :
      /\ out[i].washdown_required => out[i].action = "WASHDOWN + RUN"
      /\ (~out[i].washdown_required /\ out[i].changeover_required)
           => out[i].action = "CHANGEOVER + RUN"
      /\ (~out[i].washdown_required /\ ~out[i].changeover_required)
           => out[i].action = "RUN"

\* a table with all three labels: a first job, a job after a change of
\* product only, and a job after a change that needs a washdown as well
C17_Witness ==
  /\ pc = "actions"
  /\ \E i, j, k \in 1..Len(out) :
       /\ out[i].action = "RUN"
       /\ out[j].action = "CHANGEOVER + RUN"
       /\ ~out[j].washdown_required
       /\ out[k].action = "WASHDOWN + RUN"
       /\ out[k].changeover_required
       /\ out[k].washdown_required

(***************************************************************************)
(* C18  M3 washdown rule: on machine M3 every row that follows a row with  *)
(* a different product name has washdown_required = true, also when the    *)
(* flavour label and every other feature of the two jobs are the same; on  *)
(* any other machine a row that differs from the row before it in the      *)
(* product name only has changeover_required = true and washdown_required  *)
(* = false.                                                                *)
(***************************************************************************)
\* the features of two rows other than the product name are the same
SameFeatures(p, c) ==
  LET a == make_features(p)
      b == make_features(c)
  IN  /\ a.flavour = b.flavour
      /\ a.is_plain = b.is_plain
      /\ a.is_granola = b.is_granola
      /\ a.has_nut_risk = b.has_nut_risk
      /\ a.has_choc = b.has_choc

C18_M3Washdown ==
  pc = "done" =>
    \A m \in Machines :
      LET rows == RowsOf(out, m)
      IN  \A i \in 2..Len(rows) :
            rows[i - 1].product_name # rows[i].product_name =>
              IF m = "M3"
              THEN rows[i].washdown_required
              ELSE SameFeatures(rows[i - 1], rows[i]) =>
                     /\ rows[i].changeover_required
                     /\ ~rows[i].washdown_required

\* two M3 granola jobs of one flavour and different names: the second row
\* requires a washdown, for the M3 rule alone
C18_Witness ==
  /\ pc = "done"
  /\ Len(RowsOf(out, "M3")) = 2
  /\ SameFeatures(RowsOf(out, "M3")[1], RowsOf(out, "M3")[2])
  /\ RowsOf(out, "M3")[1].product_name # RowsOf(out, "M3")[2].product_name
  /\ RowsOf(out, "M3")[2].washdown_required
  /\ RowsOf(out, "M3")[2].washdown_reason
       = <<Part("product change"), Part("M3 granola washdown")>>

(***************************************************************************)
(* C19  Scenario A: for the two M1 jobs "Plain 150g" (plain) and "Vanilla  *)
(* 150g" (not plain, flavour "vanilla"), in either input order,            *)
(* propose_sequence ranks the plain job first and the vanilla job second,  *)
(* and the vanilla row has changeover_required = true, washdown_required = *)
(* true and reasons that mention the plain/flavoured switch.               *)
(***************************************************************************)
ScenarioPlain   == Row(pn_plain_150, fl_plain, <<150>>, TRUE, "M1")
ScenarioVanilla == Row(pn_vanilla_150, fl_vanilla, <<150>>, FALSE, "M1")

Mentions(reason, text) ==
  \E k \in 1..Len(reason) : reason[k] = Part(text)

C19_ScenarioA ==
  (/\ pc = "done"
   /\ df \in {<<ScenarioPlain, ScenarioVanilla>>,
              <<ScenarioVanilla, ScenarioPlain>>}) =>
    /\ Len(out) = 2
    /\ InputCols(out[1]) = ScenarioPlain
    /\ out[1].sequence_rank = 1
    /\ InputCols(out[2]) = ScenarioVanilla
    /\ out[2].sequence_rank = 2
    /\ out[2].changeover_required
    /\ out[2].washdown_required
    /\ Mentions(out[2].washdown_reason, "plain<->flavoured switch")
    /\ Mentions(out[2].changeover_reason, "plain<->flavoured switch")

\* the vanilla job was given first and the plain job has come out first
C19_Witness ==
  /\ pc = "done"
  /\ df = <<ScenarioVanilla, ScenarioPlain>>
  /\ InputCols(out[1]) = ScenarioPlain
  /\ out[2].washdown_required

(***************************************************************************)
(* C20  Cost symmetry in magnitude: for every pair of jobs (A, B),         *)
(* transition_cost(A, B) and transition_cost(B, A) return the same minutes *)
(* and the same washdown flag; the reason text may differ.                 *)
(***************************************************************************)
C20_CostSymmetry ==
  pc = "paired" =>
    /\ calls[1].a = calls[2].b
    /\ calls[1].b = calls[2].a
    /\ calls[1].res.cost = calls[2].res.cost
    /\ calls[1].res.washdown = calls[2].res.washdown

\* a plain and a flavoured job of one machine: the same minutes and a
\* washdown both ways, with reason texts that differ
C20_Witness ==
  /\ pc = "paired"
  /\ calls[1].a.is_plain
  /\ ~calls[1].b.is_plain
  /\ calls[1].a.machine = calls[1].b.machine
  /\ calls[1].res.cost = calls[2].res.cost
  /\ calls[1].res.cost > 0
  /\ calls[1].res.washdown
  /\ calls[1].res.reason # calls[2].res.reason

(***************************************************************************)
(* C21  Pipeline output comes from the optimizer: the records main writes  *)
(* as its output are the records of the proposed sequence, in the          *)
(* optimized rank order of each machine and with the changeover and        *)
(* washdown flags computed from that order, and not flags recomputed over  *)
(* the input order.                                                        *)
(***************************************************************************)
C21_AsClaimed ==
  pc = "written" =>
    /\ Len(df_out) = Len(out)
    /\ \A i \in 1..Len(df_out) :
         /\ df_out[i].machine = out[i].machine
         /\ df_out[i].product_name = out[i].product_name
         /\ df_out[i].flavour_label = out[i].flavour_label
         /\ df_out[i].changeover_required = out[i].changeover_required
         /\ df_out[i].washdown_required = out[i].washdown_required

\* the most a same-machine pair can cost: every rule of transition_cost
\* fires
MaxSameMachineCost ==
  BASE_PRODUCT_CHANGE_MIN + WASHDOWN_MIN + FLAVOUR_CHANGE_EXTRA_MIN
    + PLAIN_TO_FLAVOURED_EXTRA_MIN + GRANOLA_CHANGE_EXTRA_MIN
    + 2 * (FULL_WASHDOWN_MIN - WASHDOWN_MIN)

\* the reason text holds the guard's "Different machine"
MentionsGuard(reason) ==
  \E k \in 1..Len(reason) : reason[k] = Part("Different machine")

(***************************************************************************)
(* C22  No cross-machine comparison: every call of transition_cost that    *)
(* propose_sequence makes while ordering or annotating a partition has     *)
(* both jobs on the same machine, so the guard's result (the cost 1e9 and  *)
(* "Different machine") is never returned during sequencing and never      *)
(* appears in a reason of the output; and the guard's cost is larger than  *)
(* any cost of a same-machine pair.                                        *)
(***************************************************************************)
C22_NoCrossMachine ==
  /\ MaxSameMachineCost < DIFFERENT_MACHINE_COST
  /\ \A k \in 1..Len(calls) :
       /\ calls[k].a.machine = calls[k].b.machine
       /\ calls[k].res.cost <= MaxSameMachineCost
       /\ ~MentionsGuard(calls[k].res.reason)
  /\ \A k \in 1..Len(cols.chg_reasons) :
       /\ ~MentionsGuard(cols.chg_reasons[k])
       /\ ~MentionsGuard(cols.wash_reasons[k])
  /\ \A i \in 1..Len(out) :
       /\ ~MentionsGuard(out[i].changeover_reason)
       /\ ~MentionsGuard(out[i].washdown_reason)

\* a plan with jobs of two machines: a partition of several jobs is being
\* ordered or annotated and the step has called transition_cost at a cost
C22_Witness ==
  /\ pc \in {"greedy", "annotate"}
  /\ \E i, j \in 1..Len(df) : df[i].machine # df[j].machine
  /\ calls # <<>>
  /\ \E k \in 1..Len(calls) :
       /\ calls[k].res.cost > 0
       /\ calls[k].a.machine = calls[k].b.machine

\* every row of d is on the machine of the first row
OneMachine(d) == \A i \in 1..Len(d) : d[i].machine = d[1].machine

\* every flavour label of d is trimmed and lower-cased already
LabelsClean(d) ==
  \A i \in 1..Len(d) : d[i].flavour_label = lower(strip(d[i].flavour_label))

(***************************************************************************)
(* C23  The two annotators agree in one direction: for an ordered list of  *)
(* jobs on one machine whose flavour labels are trimmed and lower-cased,   *)
(* a row that add_changeover_and_washdown marks washdown_required (resp.   *)
(* changeover_required) is marked washdown_required (resp.                 *)
(* changeover_required) by the sequencer's annotation of the same adjacent *)
(* pair as well.                                                           *)
(***************************************************************************)
C23_AnnotatorsAgree ==
  (pc = "annotated" /\ OneMachine(df) /\ LabelsClean(df)) =>
    \A i \in 1..Len(df) :
      /\ df_out[i].washdown_required => out[i].washdown_required
      /\ df_out[i].changeover_required => out[i].changeover_required

\* a clean list on one machine where both annotators mark a row for a
\* washdown and for a changeover, and the sequencer marks a washdown on a
\* row that the agent leaves unmarked
C23_Witness ==
  /\ pc = "annotated"
  /\ OneMachine(df)
  /\ LabelsClean(df)
  /\ \E i \in 1..Len(df) :
       /\ df_out[i].washdown_required
       /\ out[i].washdown_required
       /\ df_out[i].changeover_required
       /\ out[i].changeover_required
  /\ \E j \in 1..Len(df) :
       /\ out[j].washdown_required
       /\ ~df_out[j].washdown_required

====
